---- MODULE Spec2Model ----
(***************************************************************************)
(* A model of the dewy deployment daemon: the release resolver and its     *)
(* cache key (repo/github_release.go), the poll cycle, the deploy pipeline *)
(* and the server lifecycle (dewy.go).                                     *)
(*                                                                         *)
(* Go strings are sequences of one-character strings, so that formatting   *)
(* and strings.Replace are computed character by character.                *)
(***************************************************************************)
EXTENDS Integers, Sequences, FiniteSets, TLC

(***************************************************************************)
(* Strings                                                                 *)
(***************************************************************************)

Digits == <<"0", "1", "2", "3", "4", "5", "6", "7", "8", "9">>

RECURSIVE NatToStr(_)
\* The decimal digits of a natural number, most significant first.
NatToStr(n) ==
    IF n < 10 THEN <<Digits[n + 1]>>
    ELSE NatToStr(n \div 10) \o <<Digits[(n % 10) + 1]>>

\* fmt's %d verb for a signed integer.
FormatInt(n) == IF n < 0 THEN <<"-">> \o NatToStr(0 - n) ELSE NatToStr(n)

\* strings.Replace(s, old, new, -1) for one-character old and new.
ReplaceAll(s, old, new) ==
    [i \in 1..Len(s) |-> IF s[i] = old THEN new ELSE s[i]]

\* time.Time{}.Unix(), the seconds of the zero time, printed by %d.
\* (-62135596800 is no 32-bit integer: a time is the record [zero, unix] and
\* of the zero time only the printed form is kept.)
ZeroTimeUnixStr ==
    <<"-", "6", "2", "1", "3", "5", "5", "9", "6", "8", "0", "0">>

ZeroTime == [zero |-> TRUE, unix |-> 0]

TimeAt(n) == [zero |-> FALSE, unix |-> n]

\* fmt.Sprintf("%d", t.Unix())
UnixStr(t) == IF t.zero THEN ZeroTimeUnixStr ELSE FormatInt(t.unix)

(***************************************************************************)
(* URLs: url.Parse gives the host and the request path of a download URL.  *)
(***************************************************************************)

URL(h, p) == [host |-> h, path |-> p]

\* url.Parse("")
EmptyURL == URL(<<>>, <<>>)

\* (*url.URL).RequestURI: the path, or "/" when the path is empty.
RequestURI(u) == IF u.path = <<>> THEN <<"/">> ELSE u.path

\* A mutation of setCacheKey that leaves the timestamp out of the key.
setCacheKeyNoTime(u, updatedAt) ==
    ReplaceAll(u.host \o <<"-", "-">> \o <<"-">> \o RequestURI(u), "/", "-")

\* A mutation of setCacheKey that joins host and timestamp by one dash.
setCacheKeyOneDash(u, updatedAt) ==
    ReplaceAll(u.host \o <<"-">> \o UnixStr(updatedAt) \o <<"-">>
                   \o RequestURI(u), "/", "-")

\* GithubRelease.setCacheKey:
\*   strings.Replace(fmt.Sprintf("%s--%d-%s", u.Host, updatedAt.Unix(),
\*                               u.RequestURI()), "/", "-", -1)
setCacheKey(u, updatedAt) ==
    ReplaceAll(u.host \o <<"-", "-">> \o UnixStr(updatedAt) \o <<"-">>
                   \o RequestURI(u), "/", "-")

(***************************************************************************)
(* The remote release host.  A release has an id, a tag, a page URL, the   *)
(* draft and pre-release flags and a list of assets; an asset has a name,  *)
(* an id, a download URL, a last-modified time and its bytes.              *)
(***************************************************************************)

Asset(n, i, u, t, b) ==
    [name |-> n, id |-> i, url |-> u, updatedAt |-> t, body |-> b]

Release(i, tag, d, p, as) ==
    [id |-> i, tag |-> tag, htmlURL |-> <<"r", Digits[i + 1]>>,
     draft |-> d, prerelease |-> p, assets |-> as]

\* Config.Artifact: the artifact file name the daemon deploys.
Artifact == <<"a">>

Other == <<"b">>

Host == <<"h">>

Rel1 ==
    Release(1, <<"v", "1">>, FALSE, FALSE,
            <<Asset(Artifact, 11, URL(Host, <<"/", "1", "/", "a">>), TimeAt(1), <<"x", "1">>)>>)

Rel2 ==
    Release(2, <<"v", "2">>, FALSE, FALSE,
            <<Asset(Other, 20, URL(Host, <<"/", "2", "/", "b">>), TimeAt(2), <<"y", "2">>),
              Asset(Artifact, 21, URL(Host, <<"/", "2", "/", "a">>), TimeAt(2), <<"x", "2">>)>>)

\* A release that carries no asset named Artifact.
Rel3 ==
    Release(3, <<"v", "3">>, FALSE, FALSE,
            <<Asset(Other, 30, URL(Host, <<"/", "3", "/", "b">>), TimeAt(3), <<"y", "3">>)>>)

\* A pre-release.
Rel4 ==
    Release(4, <<"v", "4">>, FALSE, TRUE,
            <<Asset(Artifact, 41, URL(Host, <<"/", "4", "/", "a">>), TimeAt(4), <<"x", "4">>)>>)

\* A draft.
Rel5 ==
    Release(5, <<"v", "5">>, TRUE, FALSE,
            <<Asset(Artifact, 51, URL(Host, <<"/", "5", "/", "a">>), TimeAt(5), <<"x", "5">>)>>)

Universe == {Rel1, Rel2, Rel3, Rel4, Rel5}

\* The zero value of a release, behind a nil pointer.
NoRelease == Release(0, <<>>, FALSE, FALSE, <<>>)

\* A *github.RepositoryRelease: nil, or a pointer to a release.
NilPtr == [nil |-> TRUE, v |-> NoRelease]

PtrTo(r) == [nil |-> FALSE, v |-> r]

(***************************************************************************)
(* Bounds                                                                  *)
(***************************************************************************)

\* The most releases the host holds at a time.
MaxReleases == 2

\* The releases on one page of ListReleases (the host's page size, scaled).
PerPage == 1

\* The most poll cycles of a behaviour.
MaxCycles == 2

(***************************************************************************)
(* State                                                                   *)
(***************************************************************************)

VARIABLES
    config,          \* Config: prerelease, command, disableRecordShipping
    releases,        \* the host's releases, most recent first
    now,             \* time.Now(), in seconds
    cycles,          \* the number of cycles the scheduler has started
    pc,              \* the position of Dewy.Run
    g,               \* the GithubRelease of this cycle
    key,             \* Run's local: the key Download returned
    linkFrom,        \* deploy's local: the slot preserve returned
    err,             \* Run's local: the error of the lifecycle transition
    cache,           \* the cache directory: file name -> bytes
    slots,           \* releases/<time>: the deployment slots
    link,            \* the symlink "current"
    isServerRunning, \* Dewy.isServerRunning
    starters,        \* the goroutines startServer has spawned, in order
    cyc,             \* what this cycle was called with and what it did
    prev,            \* the outcome and the key of the cycle before
    quit,            \* whether waitSigs has sent on job.Quit and returned
    tripleA,         \* setCacheKey alone: a (host, path, time) triple
    tripleB,         \* setCacheKey alone: another triple
    keyA,            \* setCacheKey alone: the key of tripleA
    keyB,            \* setCacheKey alone: the key of tripleB
    kpc              \* setCacheKey alone: "init", then "done"

runVars == <<pc, g, key, linkFrom, err, cyc, prev, cycles>>

diskVars == <<cache, slots, link>>

serverVars == <<isServerRunning, starters>>

envVars == <<config, releases, now>>

keyVars == <<tripleA, tripleB, keyA, keyB, kpc>>

sigVars == <<quit>>

vars == <<config, releases, now, cycles, pc, g, key, linkFrom, err, cache, slots, link,
          isServerRunning, starters, cyc, prev, quit, tripleA, tripleB, keyA, keyB,
          kpc>>

\* Config.Command
SERVER == "server"

ASSETS == "assets"

\* RepositoryConfig.Provider
GITHUB == "github"

\* A provider NewRepository has no case for.
UnknownProvider == "unknown"

\* "current.txt", the cache file that holds the current key.
currentKey == <<"c", "u", "r", "r", "e", "n", "t", ".", "t", "x", "t">>

\* The fields of a GithubRelease that NewGithubRelease leaves zero.
NewGithubRelease ==
    [releaseID |-> 0, releaseURL |-> <<>>, releaseTag |-> <<>>,
     downloadURL |-> EmptyURL, assetID |-> 0, updatedAt |-> ZeroTime,
     cacheKey |-> <<>>]

NoLink == [set |-> FALSE, to |-> 0]

LinkTo(n) == [set |-> TRUE, to |-> n]

\* A slot directory: whether it exists, the archives extracted into it in
\* full, and whether a failed extraction left part of an archive in it.
NoSlot == [made |-> FALSE, full |-> {}, torn |-> FALSE]

\* The record of a cycle, at its start.
NewCycle(c, l, r) ==
    [outcome |-> "running", key |-> <<>>, listed |-> FALSE, asked |-> FALSE,
     called |-> FALSE, ptr0 |-> <<>>,
     present0 |-> FALSE, cache0 |-> c, link0 |-> l, running0 |-> r,
     downloads |-> 0, entryWrites |-> 0, ptrWrites |-> 0,
     deployCalled |-> FALSE, deployKey |-> <<>>, deployLink |-> l,
     mkdirs |-> 0, unlinks |-> 0, symlinks |-> 0,
     starts |-> 0, hups |-> 0, uploads |-> 0,
     flagAccess |-> <<>>]

(***************************************************************************)
(* The cache store (kvs.KVS): Read, Write, List over one directory.        *)
(***************************************************************************)

EmptyCache == [k \in {} |-> <<>>]

\* KVS.List: the names of the files of the cache directory.
CacheList(c) == DOMAIN c

\* KVS.Read: the bytes of a file; reading a missing file gives no bytes
\* (and an error its caller drops).
CacheRead(c, k) == IF k \in DOMAIN c THEN c[k] ELSE <<>>

\* KVS.Write, when it succeeds: the file holds exactly the bytes.
CacheWrite(c, k, b) ==
    [x \in (DOMAIN c) \cup {k} |-> IF x = k THEN b ELSE c[x]]

Configs ==
    [prerelease : BOOLEAN, command : {SERVER, ASSETS},
     disableRecordShipping : BOOLEAN, provider : {GITHUB, UnknownProvider}]

KeyIdle ==
    /\ tripleA = <<Host, <<"/">>, 0>>
    /\ tripleB = <<Host, <<"/">>, 0>>
    /\ keyA = <<>>
    /\ keyB = <<>>
    /\ kpc = "init"

\* dewy.New, and a host with no release yet.
Init ==
    /\ config \in Configs
    /\ releases = <<>>
    /\ now = 0
    /\ cycles = 0
    /\ pc = "idle"
    /\ g = NewGithubRelease
    /\ key = <<>>
    /\ linkFrom = 0
    /\ err = FALSE
    /\ cache = EmptyCache
    /\ slots = [n \in 0..MaxCycles |-> NoSlot]
    /\ link = NoLink
    /\ isServerRunning = FALSE
    /\ starters = <<>>
    /\ cyc = [NewCycle(EmptyCache, NoLink, FALSE) EXCEPT !.outcome = "none"]
    /\ prev = [ok |-> FALSE, key |-> <<>>]
    /\ quit = FALSE
    /\ KeyIdle

(***************************************************************************)
(* The release host's side                                                 *)
(***************************************************************************)

Min(a, b) == IF a < b THEN a ELSE b

\* What the host may hold: releases in host order, the most recent (the
\* greatest id) first.
HostStates ==
    {rs \in UNION {[1..n -> Universe] : n \in 0..MaxReleases} :
        \A i \in 1..Len(rs) : \A j \in 1..Len(rs) : i < j => rs[i].id > rs[j].id}

\* Repositories.ListReleases with ListOptions{Page: 1}: the first page.
ListReleases(rs) == SubSeq(rs, 1, Min(Len(rs), PerPage))

\* Repositories.GetLatestRelease: the most recent release that is neither a
\* draft nor a pre-release; an error (404) when there is none.
GetLatestRelease(rs) ==
    LET ok == {i \in 1..Len(rs) : ~rs[i].draft /\ ~rs[i].prerelease}
    IN  IF ok = {} THEN [err |-> TRUE, r |-> NilPtr]
        ELSE [err |-> FALSE,
              r |-> PtrTo(rs[CHOOSE i \in ok : \A j \in ok : i <= j])]

\* The asset of the host with the given id, as a set of at most one.
AssetsById(rs, id) ==
    {a \in UNION {{rs[i].assets[j] : j \in 1..Len(rs[i].assets)} :
                     i \in 1..Len(rs)} : a.id = id}

(***************************************************************************)
(* The release resolver (repo/github_release.go)                           *)
(***************************************************************************)

\* GithubRelease.latest.  listOk and latestOk say whether the two calls of
\* the host's API go through; listed and asked record whether ListReleases
\* answered and whether GetLatestRelease was called.  In pre-release mode the
\* loop returns r, which is still nil, at the first release that is no draft.
latest(prerelease, rs, listOk, latestOk) ==
    LET rr == ListReleases(rs)
        nonDraft == {i \in 1..Len(rr) : ~rr[i].draft}
    IN  IF prerelease /\ ~listOk
            THEN [err |-> TRUE, r |-> NilPtr, listed |-> FALSE, asked |-> FALSE]
        ELSE IF prerelease /\ nonDraft # {}
            THEN [err |-> FALSE, r |-> NilPtr, listed |-> TRUE, asked |-> FALSE]
        ELSE IF ~latestOk
            THEN [err |-> TRUE, r |-> NilPtr, listed |-> prerelease, asked |-> TRUE]
        ELSE [err |-> GetLatestRelease(rs).err, r |-> GetLatestRelease(rs).r,
              listed |-> prerelease, asked |-> TRUE]

\* The loop of Fetch over release.Assets: the fields of the first asset whose
\* name is the artifact's; no field changes when there is none.
FetchAsset(g0, release, artifact) ==
    LET as == release.assets
        hit == {i \in 1..Len(as) : as[i].name = artifact}
    IN  IF hit = {} THEN g0
        ELSE LET v == as[CHOOSE i \in hit : \A j \in hit : i <= j]
             IN  [g0 EXCEPT !.downloadURL = v.url,
                            !.releaseTag = release.tag,
                            !.assetID = v.id,
                            !.updatedAt = v.updatedAt]

\* A cycle that ran to its end without an error: it found nothing to deploy,
\* or it deployed (and, in server mode, started or restarted the server).
Succeeded(c) == c.outcome \in {"no_need", "deployed", "server_ok"}

\* The cycle ends with the given outcome: Run returns.
Return(c, outcome) ==
    /\ pc' = "idle"
    /\ cyc' = [c EXCEPT !.outcome = outcome]

\* NewRepository: the switch over the provider has the one case GITHUB, and
\* its default panics.
NewRepositoryPanics(provider) == provider # GITHUB

\* The scheduler's tick, Start, lines 81-83, and Run, lines 101-105: Run
\* starts with a new repository; the panic of NewRepository takes the
\* process down.  Since the last cycle the host may have
\* published or deleted releases, and the clock may have reached the next
\* second.  The timer ticks until true is sent on job.Quit.
RunStart ==
    /\ pc = "idle"
    /\ ~quit
    /\ cycles < MaxCycles
    /\ cycles' = cycles + 1
    /\ releases' \in HostStates
    /\ now' \in {now, now + 1}
    /\ g' = NewGithubRelease
    /\ key' = <<>>
    /\ linkFrom' = 0
    /\ err' = FALSE
    /\ prev' = [ok |-> Succeeded(cyc), key |-> cyc.key]
    /\ IF NewRepositoryPanics(config.provider)
           THEN /\ pc' = "crashed"
                /\ cyc' = [NewCycle(cache, link, isServerRunning)
                              EXCEPT !.outcome = "panic"]
           ELSE /\ pc' = "Fetch"
                /\ cyc' = NewCycle(cache, link, isServerRunning)
    /\ UNCHANGED <<config, diskVars, serverVars, keyVars, sigVars>>

\* Run, lines 107-110, and GithubRelease.Fetch.  A nil release takes the
\* process down at *release.ID.  The download URL is one the host made, and
\* url.Parse accepts it.
Fetch ==
    /\ pc = "Fetch"
    /\ \E listOk, latestOk \in BOOLEAN :
          LET res == latest(config.prerelease, releases, listOk, latestOk)
              release == res.r.v
              g1 == FetchAsset([g EXCEPT !.releaseID = release.id,
                                         !.releaseURL = release.htmlURL],
                               release, Artifact)
              k == setCacheKey(g1.downloadURL, g1.updatedAt)
              c == [cyc EXCEPT !.listed = res.listed, !.asked = res.asked]
          IN  IF res.err
                  THEN /\ Return(c, "fetch_err")
                       /\ g' = g
              ELSE IF res.r.nil
                  THEN /\ pc' = "crashed"
                       /\ cyc' = [c EXCEPT !.outcome = "panic"]
                       /\ g' = g
              ELSE /\ g' = [g1 EXCEPT !.cacheKey = k]
                   /\ cyc' = [c EXCEPT !.key = k]
                   /\ pc' = "IsDownloadNecessary"
    /\ UNCHANGED <<key, linkFrom, err, prev, cycles, envVars, diskVars, serverVars, keyVars, sigVars>>

\* Run, lines 112-115.  Whether the repository finds a download necessary is
\* an input of the cycle: either answer may come back.
IsDownloadNecessary ==
    /\ pc = "IsDownloadNecessary"
    /\ \E necessary \in BOOLEAN :
          IF necessary
              THEN /\ pc' = "Download"
                   /\ cyc' = cyc
              ELSE Return(cyc, "skipped")
    /\ UNCHANGED <<g, key, linkFrom, err, prev, cycles, envVars, diskVars, serverVars, keyVars, sigVars>>

\* A mutation of NoNeedToDeploy that compares the current version with the
\* name of the file it is read from.
NoNeedToDeployWrongKey(currentSourceKey, list, cacheKey) ==
    \E k \in list : currentSourceKey = currentKey /\ k = cacheKey

\* GetDeploySourceKey, line 183, over the loop: the current version is the
\* fresh key and some listed key is the fresh key.
NoNeedToDeploy(currentSourceKey, list, cacheKey) ==
    \E k \in list : currentSourceKey = cacheKey /\ k = cacheKey

\* A mutation of Found that never finds the key.
FoundNever(list, cacheKey) == FALSE

\* GetDeploySourceKey, lines 188-191, over the loop: some listed key is the
\* fresh key.
Found(list, cacheKey) == \E k \in list : k = cacheKey

\* Run, lines 117-121, and GetDeploySourceKey, lines 172-199: the current
\* version is read, the cache listed, and the loop decides between "No need
\* to deploy", a cached key and a download.  Run drops Download's error.
GetDeploySourceKey ==
    /\ pc = "Download"
    /\ LET currentSourceKey == CacheRead(cache, currentKey)
           list == CacheList(cache)
           c == [cyc EXCEPT !.called = TRUE,
                            !.ptr0 = currentSourceKey,
                            !.present0 = g.cacheKey \in list]
       IN  \E listOk \in BOOLEAN :
              IF ~listOk THEN Return(c, "list_err")
              ELSE IF NoNeedToDeploy(currentSourceKey, list, g.cacheKey)
                  THEN Return(c, "no_need")
              ELSE IF Found(list, g.cacheKey)
                  THEN /\ pc' = "updateCurrent"
                       /\ cyc' = c
              ELSE /\ pc' = "download"
                   /\ cyc' = c
    /\ UNCHANGED <<g, key, linkFrom, err, prev, cycles, envVars, diskVars, serverVars, keyVars, sigVars>>

\* A mutation of download that drops the error of the cache write.
downloadErrNetOnly(netOk, writeOk) == ~netOk

\* download, lines 212-232: the error download returns, from whether the
\* asset could be fetched and whether the cache write went through.
downloadErr(netOk, writeOk) == ~netOk \/ ~writeOk

\* GithubRelease.download: the asset is fetched from the host (following the
\* redirect the host may answer with) and written to the cache under the
\* fresh key.  The fetch fails when the host has no such asset.
download ==
    /\ pc = "download"
    /\ \E net, writeOk \in BOOLEAN :
          LET found == AssetsById(releases, g.assetID)
              netOk == net /\ found # {}
              c == [cyc EXCEPT !.downloads = @ + 1,
                               !.entryWrites = IF netOk THEN @ + 1 ELSE @]
          IN  /\ cache' = IF netOk /\ writeOk
                              THEN CacheWrite(cache, g.cacheKey,
                                              (CHOOSE a \in found : TRUE).body)
                              ELSE cache
              /\ IF downloadErr(netOk, writeOk)
                     THEN Return(c, IF netOk THEN "write_err" ELSE "download_err")
                     ELSE /\ cyc' = c
                          /\ pc' = "updateCurrent"
    /\ UNCHANGED <<g, key, linkFrom, err, prev, cycles, slots, link, envVars, serverVars, keyVars, sigVars>>

\* GetDeploySourceKey, lines 201-206: the current version is written and the
\* key returned to Run.
updateCurrent ==
    /\ pc = "updateCurrent"
    /\ \E writeOk \in BOOLEAN :
          IF ~writeOk
              THEN /\ Return([cyc EXCEPT !.ptrWrites = @ + 1], "pointer_err")
                   /\ cache' = cache
                   /\ key' = key
              ELSE /\ cache' = CacheWrite(cache, currentKey, g.cacheKey)
                   /\ key' = g.cacheKey
                   /\ cyc' = [cyc EXCEPT !.ptrWrites = @ + 1]
                   /\ pc' = "deploy"
    /\ UNCHANGED <<g, linkFrom, err, prev, cycles, slots, link, envVars, serverVars, keyVars, sigVars>>

(***************************************************************************)
(* The deploy pipeline (dewy.go)                                           *)
(***************************************************************************)

\* A mutation of preserve that drops the error of the extraction.
preserveErrMkdirOnly(mkdirOk, extractOk) == ~mkdirOk

\* preserve, lines 168-174: the error preserve returns, from whether the slot
\* could be made and whether the archive could be extracted.
preserveErr(mkdirOk, extractOk) == ~mkdirOk \/ ~extractOk

\* Run, lines 123-128, and deploy, lines 147-151, with preserve: the slot
\* releases/<now> is made (MkdirAll accepts a directory that exists) and the
\* cached archive extracted into it; a failed extraction leaves a part.
preserve ==
    /\ pc = "deploy"
    /\ \E mkdirOk, extractOk \in BOOLEAN :
          LET dst == now
              c == [cyc EXCEPT !.deployCalled = TRUE, !.deployKey = key,
                               !.deployLink = link,
                               !.mkdirs = IF mkdirOk THEN @ + 1 ELSE @]
          IN  /\ slots' =
                    IF ~mkdirOk THEN slots
                    ELSE IF ~extractOk
                        THEN [slots EXCEPT ![dst].made = TRUE, ![dst].torn = TRUE]
                    ELSE [slots EXCEPT
                             ![dst].made = TRUE,
                             ![dst].full = @ \cup {CacheRead(cache, key)}]
              /\ IF preserveErr(mkdirOk, extractOk)
                     THEN /\ Return(c, IF mkdirOk THEN "extract_err" ELSE "mkdir_err")
                          /\ linkFrom' = linkFrom
                     ELSE /\ linkFrom' = dst
                          /\ cyc' = c
                          /\ pc' = "removeLink"
    /\ UNCHANGED <<g, key, err, prev, cycles, cache, link, envVars, serverVars, keyVars, sigVars>>

\* deploy, lines 153-156: the link is removed when Lstat finds it; the error
\* of os.Remove is dropped.
removeLink ==
    /\ pc = "removeLink"
    /\ \E removeOk \in BOOLEAN :
          IF link.set /\ removeOk
              THEN /\ link' = NoLink
                   /\ cyc' = [cyc EXCEPT !.unlinks = @ + 1]
              ELSE UNCHANGED <<link, cyc>>
    /\ pc' = "symlink"
    /\ UNCHANGED <<g, key, linkFrom, err, prev, cycles, cache, slots, envVars,
                   serverVars, keyVars, sigVars>>

\* deploy, lines 158-163, and Run, lines 126-132: the link is created (it
\* cannot be while the old one is there); outside server mode Run returns.
symlink ==
    /\ pc = "symlink"
    /\ \E symlinkOk \in BOOLEAN :
          IF link.set \/ ~symlinkOk
              THEN /\ Return(cyc, "symlink_err")
                   /\ link' = link
              ELSE /\ link' = LinkTo(linkFrom)
                   /\ IF config.command # SERVER
                          THEN Return([cyc EXCEPT !.symlinks = @ + 1], "deployed")
                          ELSE /\ pc' = "server"
                               /\ cyc' = [cyc EXCEPT !.symlinks = @ + 1]
    /\ UNCHANGED <<g, key, linkFrom, err, prev, cycles, cache, slots, envVars,
                   serverVars, keyVars, sigVars>>

(***************************************************************************)
(* The server lifecycle (dewy.go)                                          *)
(***************************************************************************)

\* An access to Dewy.isServerRunning: a read or a write, made with the
\* mutex of Dewy held or not.
FlagAccess(op, locked) == [op |-> op, locked |-> locked]

\* A mutation of Run's choice: the server is started on every deploy.
ChoosesRestartNever(running) == FALSE

\* Run, line 134: the flag chooses between restartServer and startServer.
ChoosesRestart(running) == running

\* Run, lines 134-136, and restartServer: Run reads the flag, with no Lock
\* taken; restartServer takes the Lock and SIGHUP is sent to the process.
restartServer ==
    /\ pc = "server"
    /\ ChoosesRestart(isServerRunning)
    /\ \E signalOk \in BOOLEAN :
          /\ err' = ~signalOk
          /\ cyc' = [cyc EXCEPT !.hups = @ + 1,
                                !.flagAccess = Append(@, FlagAccess("read", FALSE))]
    /\ pc' = "finalizeDeploy"
    /\ UNCHANGED <<g, key, linkFrom, prev, cycles, envVars, diskVars, serverVars,
                   keyVars, sigVars>>

\* Run, lines 134 and 137-140, and startServer: Run reads the flag, with no
\* Lock taken; startServer takes the Lock, sets the flag and spawns the
\* goroutine that runs the starter; startServer returns nil.
startServer ==
    /\ pc = "server"
    /\ ~ChoosesRestart(isServerRunning)
    /\ isServerRunning' = TRUE
    /\ starters' = Append(starters, "spawned")
    /\ err' = FALSE
    /\ cyc' = [cyc EXCEPT !.starts = @ + 1,
                          !.flagAccess = @ \o <<FlagAccess("read", FALSE),
                                                FlagAccess("write", TRUE)>>]
    /\ pc' = "finalizeDeploy"
    /\ UNCHANGED <<g, key, linkFrom, prev, cycles, envVars, diskVars, keyVars, sigVars>>

\* The goroutine of startServer, lines 203-211: NewStarter fails and the
\* goroutine ends, or the starter runs.
starterGoroutine ==
    /\ \E i \in 1..Len(starters) :
          /\ starters[i] = "spawned"
          /\ \E newOk \in BOOLEAN :
                starters' = [starters EXCEPT ![i] = IF newOk THEN "running"
                                                             ELSE "failed"]
    /\ UNCHANGED <<runVars, envVars, diskVars, isServerRunning, keyVars, sigVars>>

\* GithubRelease.RecordShipping: nothing when disabled, else one upload.
\* The result is <<uploads made, error>>.
RecordShipping(disabled, uploadOk) ==
    IF disabled THEN <<0, FALSE>> ELSE <<1, ~uploadOk>>

\* Run, lines 142-143, and finalizeDeploy: the shipping record is uploaded,
\* its error logged, and Run returns the error of the lifecycle transition.
finalizeDeploy ==
    /\ pc = "finalizeDeploy"
    /\ \E uploadOk \in BOOLEAN :
          LET rec == RecordShipping(config.disableRecordShipping, uploadOk)
          IN  Return([cyc EXCEPT !.uploads = @ + rec[1]],
                     IF err THEN "server_err" ELSE "server_ok")
    /\ UNCHANGED <<g, key, linkFrom, err, prev, cycles, envVars, diskVars,
                   serverVars, keyVars, sigVars>>

Next ==
    \/ RunStart
    \/ Fetch
    \/ IsDownloadNecessary
    \/ GetDeploySourceKey
    \/ download
    \/ updateCurrent
    \/ preserve
    \/ removeLink
    \/ symlink
    \/ restartServer
    \/ startServer
    \/ starterGoroutine
    \/ finalizeDeploy

Spec == Init /\ [][Next]_vars

(***************************************************************************)
(* The daemon with its signal listener (dewy.go)                           *)
(***************************************************************************)

\* Start, line 88, and waitSigs: SIGINT, SIGTERM or SIGQUIT is received, true
\* is sent on job.Quit, which stops the timer, the notice is sent, and
\* waitSigs and Start return.  The cycle runs in the scheduler's goroutine:
\* the send hands the scheduler one value and nothing in waitSigs or Start
\* waits for Run to return.
waitSigs ==
    /\ ~quit
    /\ pc # "crashed"
    /\ quit' = TRUE
    /\ UNCHANGED <<runVars, envVars, diskVars, serverVars, keyVars>>

DaemonNext ==
    \/ Next
    \/ waitSigs

DaemonSpec == Init /\ [][DaemonNext]_vars

(***************************************************************************)
(* The cache key as a function: two (host, request path, unix time)        *)
(* triples are drawn and setCacheKey applied to each.                      *)
(***************************************************************************)

ExampleHost ==
    <<"g", "i", "t", "h", "u", "b", ".", "c", "o", "m">>

ExamplePath ==
    <<"/", "r", "e", "l", "e", "a", "s", "e", "s", "/", "d", "o", "w", "n",
      "l", "o", "a", "d", "/", "v", "1", ".", "2", ".", "3", "/", "a", "p",
      "p", "-", "l", "i", "n", "u", "x", ".", "t", "a", "r", ".", "g", "z">>

\* The key the scenario of the specification names.
ExampleKey ==
    <<"g", "i", "t", "h", "u", "b", ".", "c", "o", "m", "-", "-", "1", "6",
      "7", "2", "5", "3", "1", "2", "0", "0", "-", "r", "e", "l", "e", "a",
      "s", "e", "s", "-", "d", "o", "w", "n", "l", "o", "a", "d", "-", "v",
      "1", ".", "2", ".", "3", "-", "a", "p", "p", "-", "l", "i", "n", "u",
      "x", ".", "t", "a", "r", ".", "g", "z">>

\* The key with the leading separator of the request path rewritten too.
ExampleKeyDashed ==
    <<"g", "i", "t", "h", "u", "b", ".", "c", "o", "m", "-", "-", "1", "6",
      "7", "2", "5", "3", "1", "2", "0", "0", "-", "-", "r", "e", "l", "e",
      "a", "s", "e", "s", "-", "d", "o", "w", "n", "l", "o", "a", "d", "-",
      "v", "1", ".", "2", ".", "3", "-", "a", "p", "p", "-", "l", "i", "n",
      "u", "x", ".", "t", "a", "r", ".", "g", "z">>

ExampleTriple == <<ExampleHost, ExamplePath, 1672531200>>

KeyHosts == {<<"h">>, <<"h", "-">>, <<"g">>}

KeyPaths ==
    {<<"/", "a">>, <<"/", "a", "/", "b">>, <<"/", "a", "-", "b">>, <<"/", "b">>}

KeyTimes == {-1, 0, 1, 10}

Triples == (KeyHosts \X KeyPaths \X KeyTimes) \cup {ExampleTriple}

\* Fetch, lines 122-130, for an asset with the triple's URL and time.
KeyOf(t) == setCacheKey(URL(t[1], t[2]), TimeAt(t[3]))

KeyInit ==
    /\ config = [prerelease |-> FALSE, command |-> ASSETS,
                 disableRecordShipping |-> FALSE]
    /\ releases = <<>>
    /\ now = 0
    /\ cycles = 0
    /\ pc = "idle"
    /\ g = NewGithubRelease
    /\ key = <<>>
    /\ linkFrom = 0
    /\ err = FALSE
    /\ cache = EmptyCache
    /\ slots = [n \in 0..MaxCycles |-> NoSlot]
    /\ link = NoLink
    /\ isServerRunning = FALSE
    /\ starters = <<>>
    /\ cyc = [NewCycle(EmptyCache, NoLink, FALSE) EXCEPT !.outcome = "none"]
    /\ prev = [ok |-> FALSE, key |-> <<>>]
    /\ quit = FALSE
    /\ tripleA \in Triples
    /\ tripleB \in Triples
    /\ keyA = <<>>
    /\ keyB = <<>>
    /\ kpc = "init"

ComputeKeys ==
    /\ kpc = "init"
    /\ keyA' = KeyOf(tripleA)
    /\ keyB' = KeyOf(tripleB)
    /\ kpc' = "done"
    /\ UNCHANGED <<tripleA, tripleB, runVars, envVars, diskVars, serverVars, sigVars>>

KeyNext == ComputeKeys

KeySpec == KeyInit /\ [][KeyNext]_vars

\* The request path with every path separator rewritten to a dash.
Dashed(p) == ReplaceAll(p, "/", "-")

\* C7, as stated: the cache key is an injective function of (host, request
\* path, unix time): two triples that differ give different keys.
C7_Injective ==
    (kpc = "done" /\ tripleA # tripleB) => keyA # keyB

\* C7, amended: the cache key is a function of the triple, so identical
\* triples give identical keys; two triples that differ only in the time, or
\* only in the host, give different keys; two triples that differ only in the
\* path give the same key exactly when the paths are equal once every "/" is
\* rewritten to "-".
C7_KeyFunction ==
    kpc = "done" =>
        /\ tripleA = tripleB => keyA = keyB
        /\ (tripleA[1] = tripleB[1] /\ tripleA[2] = tripleB[2]
              /\ tripleA[3] # tripleB[3]) => keyA # keyB
        /\ (tripleA[1] # tripleB[1] /\ tripleA[2] = tripleB[2]
              /\ tripleA[3] = tripleB[3]) => keyA # keyB
        /\ (tripleA[1] = tripleB[1] /\ tripleA[3] = tripleB[3])
              => (keyA = keyB <=> Dashed(tripleA[2]) = Dashed(tripleB[2]))

\* Two triples that differ only in the time have had their keys computed.
C7_Witness ==
    /\ kpc = "done"
    /\ tripleA[1] = tripleB[1]
    /\ tripleA[2] = tripleB[2]
    /\ tripleA[3] # tripleB[3]
    /\ keyA # <<>>

\* C8, as stated: for host github.com, request path
\* /releases/download/v1.2.3/app-linux.tar.gz and unix time 1672531200 the
\* cache key is github.com--1672531200-releases-download-v1.2.3-app-linux.tar.gz.
C8_ExampleKey ==
    (kpc = "done" /\ tripleA = ExampleTriple) => keyA = ExampleKey

\* C8, amended: for that host, path and time the cache key is
\* github.com--1672531200--releases-download-v1.2.3-app-linux.tar.gz: the
\* format is host--<unix time>-<request path>, and the separator the request
\* path starts with is rewritten to a dash like every other.
C8_ExampleKeyDashed ==
    (kpc = "done" /\ tripleA = ExampleTriple) => keyA = ExampleKeyDashed

\* The key of the example triple has been computed.
C8_Witness ==
    /\ kpc = "done"
    /\ tripleA = ExampleTriple
    /\ Len(keyA) > 0

(***************************************************************************)
(* The contract of GetDeploySourceKey and of the cycle.  cyc holds what    *)
(* the call found (ptr0: the current version it read; present0: whether    *)
(* the fresh key was in the store) and what the cycle has done since.      *)
(***************************************************************************)

\* The current version, as current.txt holds it.
Pointer == CacheRead(cache, currentKey)

\* The bytes of the asset Fetch resolved, as the host serves them.
FetchedBody == (CHOOSE a \in AssetsById(releases, g.assetID) : TRUE).body

\* C1: GetDeploySourceKey, called when the current version equals the fresh
\* key and the key is in the store, returns "No need to deploy" (or the
\* error of listing the cache, when that fails) and Run returns at once: no
\* download, no write of an entry or of the current version, no deploy, no
\* change of the link or of a slot, no start or restart of the server.
C1_NothingToDeploy ==
    (cyc.called /\ cyc.ptr0 = cyc.key /\ cyc.present0) =>
        /\ pc = "idle"
        /\ cyc.outcome \in {"no_need", "list_err"}
        /\ cyc.downloads = 0
        /\ cyc.entryWrites = 0
        /\ cyc.ptrWrites = 0
        /\ cache = cyc.cache0
        /\ ~cyc.deployCalled
        /\ cyc.mkdirs = 0
        /\ cyc.unlinks = 0
        /\ cyc.symlinks = 0
        /\ link = cyc.link0
        /\ cyc.starts = 0
        /\ cyc.hups = 0
        /\ isServerRunning = cyc.running0

\* A call in that case has returned "No need to deploy".
C1_Witness ==
    /\ cyc.called
    /\ cyc.ptr0 = cyc.key
    /\ cyc.present0
    /\ cyc.outcome = "no_need"

\* C2: GetDeploySourceKey, called when the fresh key is in the store and the
\* current version is another value (or none), downloads nothing and writes
\* no entry; unless listing the cache or writing the current version fails,
\* the current version becomes the fresh key, the fresh key is returned and
\* Run calls deploy with it.
C2_CachedKeyPromoted ==
    (cyc.called /\ cyc.present0 /\ cyc.ptr0 # cyc.key) =>
        /\ cyc.downloads = 0
        /\ cyc.entryWrites = 0
        /\ \/ pc = "updateCurrent" /\ cyc.ptrWrites = 0
           \/ cyc.outcome \in {"list_err", "pointer_err"}
           \/ /\ cyc.ptrWrites = 1
              /\ Pointer = cyc.key
              /\ key = cyc.key
              /\ \/ pc = "deploy"
                 \/ cyc.deployCalled /\ cyc.deployKey = cyc.key

\* A call in that case has returned and deploy has been called with the key.
C2_Witness ==
    /\ cyc.called
    /\ cyc.present0
    /\ cyc.ptr0 # cyc.key
    /\ cyc.deployCalled
    /\ cyc.deployKey = cyc.key

\* C3: GetDeploySourceKey, called when the fresh key is not in the store,
\* calls download exactly once (unless listing the cache fails); download
\* writes the fetched bytes under the fresh key and no other entry; the
\* current version is written only once that entry is in the store, and then
\* it is the fresh key that is written and returned.
C3_DownloadThenPointer ==
    (cyc.called /\ ~cyc.present0) =>
        /\ cyc.downloads <= 1
        /\ cyc.entryWrites <= cyc.downloads
        /\ (cyc.outcome # "list_err" /\ pc # "download") => cyc.downloads = 1
        /\ cyc.outcome = "list_err" => cyc.downloads = 0
        /\ DOMAIN cache \subseteq (DOMAIN cyc.cache0) \cup {cyc.key, currentKey}
        /\ \A k \in (DOMAIN cyc.cache0) \ {currentKey} : cache[k] = cyc.cache0[k]
        /\ (pc = "updateCurrent" \/ cyc.ptrWrites > 0) =>
              /\ cyc.key \in DOMAIN cache
              /\ cache[cyc.key] = FetchedBody
              /\ cyc.entryWrites = 1
        /\ (cyc.ptrWrites = 0 \/ cyc.outcome = "pointer_err") => Pointer = cyc.ptr0
        /\ (cyc.ptrWrites > 0 /\ cyc.outcome # "pointer_err") =>
              /\ Pointer = cyc.key
              /\ key = cyc.key

\* A call in that case has downloaded, stored the entry and written the
\* current version.
C3_Witness ==
    /\ cyc.called
    /\ ~cyc.present0
    /\ cyc.downloads = 1
    /\ cyc.ptrWrites = 1
    /\ Pointer = cyc.key

\* C4: when deploy fails in making the slot or in extracting the archive,
\* the link is what it was when deploy was called, neither removed nor
\* created; and whenever deploy has removed or created the link, the archive
\* of the key has been extracted in full into the slot of this deploy.
C4_LinkKeptOnFailure ==
    /\ cyc.outcome \in {"mkdir_err", "extract_err"} =>
          /\ link = cyc.deployLink
          /\ cyc.unlinks = 0
          /\ cyc.symlinks = 0
    /\ (cyc.deployCalled /\ (cyc.unlinks > 0 \/ cyc.symlinks > 0
                               \/ link # cyc.deployLink)) =>
          /\ slots[linkFrom].made
          /\ CacheRead(cache, cyc.deployKey) \in slots[linkFrom].full

\* A deploy has failed in the extraction while a link was in place.
C4_Witness ==
    /\ cyc.outcome = "extract_err"
    /\ cyc.deployLink.set
    /\ link = cyc.deployLink

\* C5: a cycle that resolves the key the cycle before it resolved, when that
\* cycle ran to its end without an error, downloads nothing, makes no slot
\* and neither removes nor creates the link.
C5_IdempotentPoll ==
    (prev.ok /\ cyc.key = prev.key) =>
        /\ cyc.downloads = 0
        /\ cyc.mkdirs = 0
        /\ ~cyc.deployCalled
        /\ cyc.unlinks = 0
        /\ cyc.symlinks = 0
        /\ link = cyc.link0
        /\ cyc.outcome \in {"running", "skipped", "list_err", "no_need"}

\* The second of two such cycles has found nothing to deploy, after a first
\* that deployed.
C5_Witness ==
    /\ prev.ok
    /\ cyc.key = prev.key
    /\ cyc.outcome = "no_need"
    /\ link.set

(***************************************************************************)
(* The server lifecycle                                                    *)
(***************************************************************************)

\* C6: in server mode the first successful deploy sets the flag and spawns
\* the starter, every later successful deploy sends SIGHUP and spawns
\* nothing: a cycle that found the flag unset and reached the transition
\* started the server once and sent no signal, a cycle that found it set
\* sent one signal and started nothing; the starter is spawned at most once,
\* the flag is set exactly from that spawn on and is never unset, and once a
\* deploy has succeeded the server counts as running.
C6_StartOnceThenRestart ==
    /\ Len(starters) <= 1
    /\ isServerRunning <=> Len(starters) = 1
    /\ cyc.running0 => isServerRunning
    /\ config.command # SERVER => starters = <<>> /\ cyc.hups = 0
    /\ cyc.outcome \in {"server_ok", "server_err"} =>
          /\ isServerRunning
          /\ cyc.symlinks = 1
          /\ ~cyc.running0 => cyc.starts = 1 /\ cyc.hups = 0
          /\ cyc.running0 => cyc.starts = 0 /\ cyc.hups = 1
    /\ cyc.symlinks = 0 => cyc.starts = 0 /\ cyc.hups = 0
    /\ (config.command = SERVER /\ link.set /\ pc # "server") => isServerRunning

\* A second successful deploy, with the server running, has sent SIGHUP.
C6_Witness ==
    /\ config.command = SERVER
    /\ cyc.outcome = "server_ok"
    /\ cyc.running0
    /\ cyc.hups = 1
    /\ Len(starters) = 1

(***************************************************************************)
(* The release resolver                                                    *)
(***************************************************************************)

\* Fetch has run in this cycle, on the releases the host holds.
Fetched == cyc.outcome \notin {"none", "running"} \/ pc \notin {"idle", "Fetch"}

FirstPage == ListReleases(releases)

NonDraft == {i \in 1..Len(FirstPage) : ~FirstPage[i].draft}

\* The first release of the first page that is no draft.
FirstNonDraft == FirstPage[CHOOSE i \in NonDraft : \A j \in NonDraft : i <= j]

\* C9: in pre-release mode, when ListReleases answers with a first page that
\* holds a release that is no draft, Fetch selects the first such release:
\* the release id, the page URL and, when an asset has the artifact's name,
\* the tag and the asset's fields are those of that release.
C9_SelectsFirstNonDraft ==
    (config.prerelease /\ Fetched /\ cyc.listed /\ NonDraft # {}) =>
        /\ cyc.outcome # "panic"
        /\ g.releaseID = FirstNonDraft.id
        /\ g.releaseURL = FirstNonDraft.htmlURL
        /\ g = [FetchAsset([NewGithubRelease EXCEPT
                               !.releaseID = FirstNonDraft.id,
                               !.releaseURL = FirstNonDraft.htmlURL],
                           FirstNonDraft, Artifact)
                  EXCEPT !.cacheKey = g.cacheKey]

\* C10: in pre-release mode, when ListReleases answers with a first page
\* that holds releases and every one is a draft, Fetch fails, without
\* calling GetLatestRelease and without selecting a release.
C10_NoEligibleRelease ==
    (config.prerelease /\ Fetched /\ cyc.listed /\ Len(FirstPage) > 0
        /\ NonDraft = {}) =>
        /\ cyc.outcome = "fetch_err"
        /\ ~cyc.asked
        /\ g.releaseID = 0

\* C11: when the release Fetch resolved has no asset whose name is the
\* artifact's, Fetch fails: Run returns the error of Fetch, no cache key is
\* derived, and the cycle downloads nothing, writes no current version and
\* calls no deploy.
C11_ArtifactNotFound ==
    (g.releaseID # 0 /\ g.assetID = 0) =>
        /\ pc = "idle"
        /\ cyc.outcome = "fetch_err"
        /\ g.cacheKey = <<>>
        /\ cyc.key = <<>>
        /\ ~cyc.called
        /\ cyc.downloads = 0
        /\ cyc.ptrWrites = 0
        /\ ~cyc.deployCalled

(***************************************************************************)
(* The scheduler and the signal listener                                   *)
(***************************************************************************)

\* C12: once a termination signal has been received and Start has returned,
\* no cycle is in flight: the cycle that was running when the signal came
\* has run to its end before Start returns (and no cycle starts after it).
C12_InFlightCompletes ==
    quit => pc = "idle"

\* C13: no failure inside a cycle ends the daemon: whatever fails, Run
\* returns, the process lives on and the next tick can start a cycle; no
\* cycle ends in a panic, be it for a release that was not selected or for a
\* provider that is not recognized.
C13_NoFailureEndsDaemon ==
    /\ pc # "crashed"
    /\ cyc.outcome # "panic"

(***************************************************************************)
(* The lock of the server lifecycle                                        *)
(***************************************************************************)

\* C15: every read and every write of the server-running flag is made with
\* the mutex held, the read by which Run chooses between startServer and
\* restartServer included.
C15_FlagUnderLock ==
    \A i \in 1..Len(cyc.flagAccess) : cyc.flagAccess[i].locked

(***************************************************************************)
(* The current version, the link and the shipping record over cycles       *)
(***************************************************************************)

\* C16: the current version names what is deployed: a cycle that ends with
\* "No need to deploy" for the key k the current version holds finds the link
\* resolving to a slot into which the cache entry of k was extracted; a
\* deploy that failed after the current version was written to k does not
\* leave later cycles reporting that there is nothing to deploy.
C16_PointerMatchesDeployment ==
    (pc = "idle" /\ cyc.outcome = "no_need") =>
        /\ Pointer = cyc.key
        /\ link.set
        /\ slots[link.to].made
        /\ CacheRead(cache, Pointer) \in slots[link.to].full

\* C17: once a deploy has succeeded, at the end of every later call of
\* deploy, failed at whatever step or not, the link exists and resolves to
\* the slot of the most recent deploy that succeeded: the slot of this call
\* when it created the link, else the slot the link named when deploy was
\* called.
C17_LinkAlwaysResolves ==
    (cyc.deployCalled /\ pc \notin {"removeLink", "symlink"}
        /\ cyc.deployLink.set) =>
        /\ link.set
        /\ slots[link.to].made
        /\ link.to = IF cyc.symlinks = 1 THEN linkFrom ELSE cyc.deployLink.to

\* C18: a cycle whose deploy succeeded uploads exactly one shipping record
\* when recording is enabled, whatever the command, and none when it is
\* disabled; a cycle whose deploy did not succeed uploads none.
C18_OneRecordPerDeploy ==
    /\ (pc = "idle" /\ cyc.symlinks = 1) =>
          cyc.uploads = IF config.disableRecordShipping THEN 0 ELSE 1
    /\ cyc.symlinks = 0 => cyc.uploads = 0
    /\ RecordShipping(TRUE, TRUE) = <<0, FALSE>>
    /\ RecordShipping(TRUE, FALSE) = <<0, FALSE>>

\* C19: a cycle in which the server could not be spawned, or the restart
\* signal could not be sent, ends with the error of the lifecycle
\* transition; the link and the current version its deploy set stay as they
\* are.
C19_LifecycleErrorReported ==
    /\ (pc = "idle" /\ cyc.starts = 1
           /\ \E i \in 1..Len(starters) : starters[i] = "failed") =>
          cyc.outcome = "server_err"
    /\ (pc = "idle" /\ cyc.hups = 1 /\ err) => cyc.outcome = "server_err"
    /\ (pc = "idle" /\ cyc.starts + cyc.hups = 1) =>
          /\ link = LinkTo(linkFrom)
          /\ Pointer = cyc.key

(***************************************************************************)
(* The cache over any sequence of calls                                    *)
(***************************************************************************)

\* C20: whatever has failed in the calls of GetDeploySourceKey so far, the
\* key the current version holds is in the cache store; a call that failed
\* in download or in writing the entry has left the current version what it
\* was; and an entry is written at most once per call and only under a key
\* the store did not hold, so that every entry the store held when the cycle
\* began is as it was.
C20_CacheInvariant ==
    /\ Pointer # <<>> => Pointer \in CacheList(cache) \ {currentKey}
    /\ cyc.ptrWrites > 0 => cyc.key \in CacheList(cache)
    /\ cyc.outcome \in {"download_err", "write_err"} =>
          /\ cyc.ptrWrites = 0
          /\ Pointer = cyc.ptr0
    /\ cyc.entryWrites <= 1
    /\ cyc.entryWrites = 1 => ~cyc.present0
    /\ \A k \in CacheList(cyc.cache0) \ {currentKey} :
          k \in CacheList(cache) /\ cache[k] = cyc.cache0[k]

\* In a store that held an entry and a current version, a call has failed
\* in writing the entry of a new key.
C20_Witness ==
    /\ cyc.outcome = "write_err"
    /\ cyc.ptr0 # <<>>
    /\ cyc.ptr0 # cyc.key
    /\ Pointer = cyc.ptr0

====
